---- MODULE Spec2Model ----
(***************************************************************************)
(* Model of src/linalg/vectors.rs: the fixed-size vectors Vec2<T> and      *)
(* Vec3<T>, the dynamic vector DVec<T> and their arithmetic.               *)
(*                                                                         *)
(* The scalar T is instantiated as the repository's tests instantiate it   *)
(* (vectors.rs:268 `x * 2f32`): a binary floating-point type.  A scalar is *)
(* a finite value, an infinity or NaN.  Finite values are the integers of  *)
(* -MaxFin..MaxFin (exactly representable, so no rounding is involved) and *)
(* a finite result outside that range overflows to the infinity of its     *)
(* sign.  Signed zeros are identified: 0.0 == -0.0.                        *)
(*                                                                         *)
(* The library keeps no state of its own.  The state is that of a client:  *)
(* two DVec bindings x and y (as in the tests), and the record of the last *)
(* call with its operands and its outcome.  The value a call returns is a  *)
(* temporary: a following call may take it by value ("tmp"), otherwise it  *)
(* is dropped.                                                             *)
(***************************************************************************)
EXTENDS Integers, Sequences, FiniteSets

VARIABLES ty, x, y, last

vars == <<ty, x, y, last>>

\* ---------------------------------------------------------------- bounds
\* The largest finite scalar magnitude (stands for f32::MAX).
MaxFin == 3
\* The longest sequence handed to DVec::new.
MaxLen == 2
\* The most calls nested in one expression through temporaries.
MaxChain == 2

\* ---------------------------------------------------------------- scalars
PInf == [k |-> "inf", n |-> 1]
NInf == [k |-> "inf", n |-> -1]
NaN  == [k |-> "nan", n |-> 0]

\* A finite value, or the infinity it overflows to.
Fin(i) ==
    IF i > MaxFin THEN PInf
    ELSE IF i < -MaxFin THEN NInf
    ELSE [k |-> "fin", n |-> i]

One == Fin(1)

Sign(i) == IF i > 0 THEN 1 ELSE IF i < 0 THEN -1 ELSE 0

\* <T as Add>::add for the floating-point scalar.
T_add(a, b) ==
    IF a.k = "nan" \/ b.k = "nan" THEN NaN
    ELSE IF a.k = "inf" /\ b.k = "inf" THEN (IF a.n = b.n THEN a ELSE NaN)
    ELSE IF a.k = "inf" THEN a
    ELSE IF b.k = "inf" THEN b
    ELSE Fin(a.n + b.n)

\* <T as Sub>::sub for the floating-point scalar.
T_sub(a, b) ==
    IF a.k = "nan" \/ b.k = "nan" THEN NaN
    ELSE IF a.k = "inf" /\ b.k = "inf" THEN (IF a.n = b.n THEN NaN ELSE a)
    ELSE IF a.k = "inf" THEN a
    ELSE IF b.k = "inf" THEN [k |-> "inf", n |-> -b.n]
    ELSE Fin(a.n - b.n)

\* <T as Mul>::mul for the floating-point scalar.
T_mul(a, b) ==
    IF a.k = "nan" \/ b.k = "nan" THEN NaN
    ELSE IF a.k = "inf" \/ b.k = "inf"
         THEN (IF Sign(a.n) * Sign(b.n) = 0 THEN NaN
               ELSE [k |-> "inf", n |-> Sign(a.n) * Sign(b.n)])
    ELSE Fin(a.n * b.n)

\* <T as PartialEq>::eq for the floating-point scalar: NaN equals nothing.
T_eq(a, b) == a.k # "nan" /\ b.k # "nan" /\ a = b

\* Scalars a client passes to Vec2::new and as the factor of mul.
InScalars == {One, Fin(2), PInf, NaN}

\* Scalars a client passes to Vec3::new.
Vec3Scalars == {One, NaN}

\* Scalars a client passes to DVec::new; the other values reach a DVec
\* through the operations applied to these.
DVecScalars == {One, PInf}

Min(a, b) == IF a < b THEN a ELSE b

\* ---------------------------------------------------------------- outcomes
\* What a call gives back: a plain value ("val"), Ok(v), Err(e), or a panic.
Val(v)   == [tag |-> "val",   err |-> "", val |-> v]
Ok(v)    == [tag |-> "ok",    err |-> "", val |-> v]
Err(e)   == [tag |-> "err",   err |-> e,  val |-> Fin(0)]
Panic    == [tag |-> "panic", err |-> "", val |-> Fin(0)]
NoResult == [tag |-> "none",  err |-> "", val |-> Fin(0)]

\* enum VectorError
DimensionMismatch == "DimensionMismatch"

\* ---------------------------------------------------------------- Vec2<T>
Vec2_new(a, b) == [x |-> a, y |-> b]

Vec2_dot(self, other) ==
    T_add(T_mul(self.x, other.x), T_mul(self.y, other.y))

Vec2_add(self, rhs) ==
    [x |-> T_add(self.x, rhs.x), y |-> T_add(self.y, rhs.y)]

Vec2_sub(self, rhs) ==
    [x |-> T_sub(self.x, rhs.x), y |-> T_sub(self.y, rhs.y)]

\* The second component scaled from the first one.
Vec2_mul_yx(self, scalar) ==
    [x |-> T_mul(self.x, scalar), y |-> T_mul(self.x, scalar)]

Vec2_mul(self, scalar) ==
    [x |-> T_mul(self.x, scalar), y |-> T_mul(self.y, scalar)]

\* #[derive(PartialEq)] on Vec2: field by field with T's ==.
Vec2_eq(u, v) == T_eq(u.x, v.x) /\ T_eq(u.y, v.y)

\* ---------------------------------------------------------------- Vec3<T>
Vec3_new(a, b, c) == [x |-> a, y |-> b, z |-> c]

\* The third product left out of the sum.
Vec3_dot_NoZ(self, other) ==
    T_add(T_mul(self.x, other.x), T_mul(self.y, other.y))

Vec3_dot(self, other) ==
    T_add(T_add(T_mul(self.x, other.x), T_mul(self.y, other.y)),
          T_mul(self.z, other.z))

\* The third component copied from the left operand instead of summed.
Vec3_add_KeepZ(self, rhs) ==
    [x |-> T_add(self.x, rhs.x), y |-> T_add(self.y, rhs.y), z |-> self.z]

Vec3_add(self, rhs) ==
    [x |-> T_add(self.x, rhs.x), y |-> T_add(self.y, rhs.y),
     z |-> T_add(self.z, rhs.z)]

Vec3_sub(self, rhs) ==
    [x |-> T_sub(self.x, rhs.x), y |-> T_sub(self.y, rhs.y),
     z |-> T_sub(self.z, rhs.z)]

Vec3_mul(self, scalar) ==
    [x |-> T_mul(self.x, scalar), y |-> T_mul(self.y, scalar),
     z |-> T_mul(self.z, scalar)]

\* #[derive(PartialEq)] on Vec3.
Vec3_eq(u, v) == T_eq(u.x, v.x) /\ T_eq(u.y, v.y) /\ T_eq(u.z, v.z)

\* ---------------------------------------------------------------- DVec<T>
\* A DVec value is the record of its one field, data.

\* The assertion left out: any sequence is accepted.
DVec_new_NoAssert(data) == Val([data |-> data])

\* DVec::new: assert!(!data.is_empty()), then Self { data }.
DVec_new(data) ==
    IF data = <<>> THEN Panic ELSE Val([data |-> data])

DVec_len(self) == Len(self.data)

\* a.iter().zip(&b): the pairs in index order, as many as the shorter has.
Zip(a, b) == [i \in 1..Min(Len(a), Len(b)) |-> <<a[i], b[i]>>]

\* Iterator::fold(init, |acc, val| acc + val), left to right.
RECURSIVE Fold(_, _)
Fold(acc, s) ==
    IF s = <<>> THEN acc ELSE Fold(T_add(acc, Head(s)), Tail(s))

\* DVec::dot.  self.data[0] is out of bounds on an empty vector (a panic).
DVec_dot(self, other) ==
    IF DVec_len(self) # DVec_len(other) THEN Err(DimensionMismatch)
    ELSE IF self.data = <<>> THEN Panic
    ELSE Ok(Fold(T_sub(self.data[1], self.data[1]),
                 [i \in DOMAIN Zip(self.data, other.data) |->
                     T_mul(Zip(self.data, other.data)[i][1],
                           Zip(self.data, other.data)[i][2])]))

\* The length check left out: the zip stops at the shorter operand.
DVec_add_ref_NoCheck(self, rhs) ==
    Ok([data |-> [i \in DOMAIN Zip(self.data, rhs.data) |->
                         T_add(Zip(self.data, rhs.data)[i][1],
                               Zip(self.data, rhs.data)[i][2])]])

\* impl Add for &DVec<T>
DVec_add_ref(self, rhs) ==
    IF DVec_len(self) # DVec_len(rhs) THEN Err(DimensionMismatch)
    ELSE Ok([data |-> [i \in DOMAIN Zip(self.data, rhs.data) |->
                         T_add(Zip(self.data, rhs.data)[i][1],
                               Zip(self.data, rhs.data)[i][2])]])

\* impl Add for DVec<T>: &self + &rhs
DVec_add(self, rhs) == DVec_add_ref(self, rhs)

\* The operands subtracted the wrong way round.
DVec_sub_ref_Swapped(self, rhs) ==
    IF DVec_len(self) # DVec_len(rhs) THEN Err(DimensionMismatch)
    ELSE Ok([data |-> [i \in DOMAIN Zip(rhs.data, self.data) |->
                         T_sub(Zip(rhs.data, self.data)[i][1],
                               Zip(rhs.data, self.data)[i][2])]])

\* impl Sub for &DVec<T>
DVec_sub_ref(self, rhs) ==
    IF DVec_len(self) # DVec_len(rhs) THEN Err(DimensionMismatch)
    ELSE Ok([data |-> [i \in DOMAIN Zip(self.data, rhs.data) |->
                         T_sub(Zip(self.data, rhs.data)[i][1],
                               Zip(self.data, rhs.data)[i][2])]])

\* impl Sub for DVec<T>: &self - &rhs
DVec_sub(self, rhs) == DVec_sub_ref(self, rhs)

\* The first component dropped from the result.
DVec_mul_DropFirst(self, scalar) ==
    [data |-> [i \in 1..(Len(self.data) - 1) |->
                  T_mul(self.data[i + 1], scalar)]]

\* impl Mul<T> for DVec<T>
DVec_mul(self, scalar) ==
    [data |-> [i \in 1..Len(self.data) |-> T_mul(self.data[i], scalar)]]

\* #[derive(PartialEq)] on DVec: Vec<T>'s ==, lengths then elements.
DVec_eq(u, v) ==
    /\ Len(u.data) = Len(v.data)
    /\ \A i \in 1..Len(u.data) : T_eq(u.data[i], v.data[i])

\* ---------------------------------------------------------------- client state
\* ty   : the vector type the client works with, "Vec2", "Vec3" or "DVec"
\* x, y : the client's two DVec bindings; "gone" before `let` and after a move
\* last : the last call: operation, operand names and values, scalar factor,
\*        outcome, and how many calls the expression nests so far
Gone    == [st |-> "gone", data |-> <<>>]
Live(v) == [st |-> "live", data |-> v.data]

NoCall ==
    [op |-> "", args |-> <<>>, ins |-> <<>>, k |-> Fin(0), out |-> NoResult,
     depth |-> 0]

Call(op, args, ins, k, out, depth) ==
    [op |-> op, args |-> args, ins |-> ins, k |-> k, out |-> out,
     depth |-> depth]

\* A panic unwinds the client: nothing runs after it.
Running == last.out.tag # "panic"

\* The last call returned a DVec that no binding holds: a temporary.
HasTmp ==
    /\ last.op \in {"DVec::add_ref", "DVec::sub_ref", "DVec::add",
                    "DVec::sub", "DVec::mul"}
    /\ last.out.tag \in {"ok", "val"}

Available(name) ==
    CASE name = "x"   -> x.st = "live"
      [] name = "y"   -> y.st = "live"
      [] name = "tmp" -> HasTmp /\ last.depth < MaxChain

Operand(name) ==
    CASE name = "x"   -> [data |-> x.data]
      [] name = "y"   -> [data |-> y.data]
      [] name = "tmp" -> last.out.val

DepthWith(names) == IF "tmp" \in names THEN last.depth + 1 ELSE 1

\* Sequences handed to DVec::new, the empty one included.
RawData == UNION {[1..n -> DVecScalars] : n \in 0..MaxLen}

Vec2Values == {Vec2_new(a, b) : a, b \in InScalars}
Vec3Values == {Vec3_new(a, b, c) : a, b, c \in Vec3Scalars}

Init ==
    /\ ty \in {"Vec2", "Vec3", "DVec"}
    /\ x = Gone
    /\ y = Gone
    /\ last = NoCall

\* let dst = DVec::new(data);
DVecNew(dst, data) ==
    /\ Running /\ ty = "DVec"
    /\ LET r == DVec_new(data) IN
        /\ last' = Call("DVec::new", <<dst>>, <<[data |-> data]>>, Fin(0), r, 1)
        /\ x' = IF dst = "x" /\ r.tag = "val" THEN Live(r.val) ELSE x
        /\ y' = IF dst = "y" /\ r.tag = "val" THEN Live(r.val) ELSE y
    /\ UNCHANGED ty

\* The operands moved into the call, as the owning form does.
AddRef_Consumes(l, r) ==
    /\ Running /\ ty = "DVec"
    /\ Available(l) /\ Available(r)
    /\ last' = Call("DVec::add_ref", <<l, r>>, <<Operand(l), Operand(r)>>,
                    Fin(0), DVec_add_ref(Operand(l), Operand(r)), 1)
    /\ x' = IF "x" \in {l, r} THEN Gone ELSE x
    /\ y' = IF "y" \in {l, r} THEN Gone ELSE y
    /\ UNCHANGED ty

\* &l + &r: the operands are borrowed, the bindings keep their values.
AddRef(l, r) ==
    /\ Running /\ ty = "DVec"
    /\ Available(l) /\ Available(r)
    /\ last' = Call("DVec::add_ref", <<l, r>>, <<Operand(l), Operand(r)>>,
                    Fin(0), DVec_add_ref(Operand(l), Operand(r)), 1)
    /\ UNCHANGED <<ty, x, y>>

\* &l - &r
SubRef(l, r) ==
    /\ Running /\ ty = "DVec"
    /\ Available(l) /\ Available(r)
    /\ last' = Call("DVec::sub_ref", <<l, r>>, <<Operand(l), Operand(r)>>,
                    Fin(0), DVec_sub_ref(Operand(l), Operand(r)), 1)
    /\ UNCHANGED <<ty, x, y>>

\* l.dot(&r)
Dot(l, r) ==
    /\ Running /\ ty = "DVec"
    /\ Available(l) /\ Available(r)
    /\ last' = Call("DVec::dot", <<l, r>>, <<Operand(l), Operand(r)>>,
                    Fin(0), DVec_dot(Operand(l), Operand(r)), 1)
    /\ UNCHANGED <<ty, x, y>>

\* l + r: the operands are taken by value, moved into the call and dropped
\* when it returns, whatever it returns.
AddOwn(l, r) ==
    /\ Running /\ ty = "DVec"
    /\ l # r
    /\ Available(l) /\ Available(r)
    /\ last' = Call("DVec::add", <<l, r>>, <<Operand(l), Operand(r)>>,
                    Fin(0), DVec_add(Operand(l), Operand(r)),
                    DepthWith({l, r}))
    /\ x' = IF "x" \in {l, r} THEN Gone ELSE x
    /\ y' = IF "y" \in {l, r} THEN Gone ELSE y
    /\ UNCHANGED ty

\* l - r
SubOwn(l, r) ==
    /\ Running /\ ty = "DVec"
    /\ l # r
    /\ Available(l) /\ Available(r)
    /\ last' = Call("DVec::sub", <<l, r>>, <<Operand(l), Operand(r)>>,
                    Fin(0), DVec_sub(Operand(l), Operand(r)),
                    DepthWith({l, r}))
    /\ x' = IF "x" \in {l, r} THEN Gone ELSE x
    /\ y' = IF "y" \in {l, r} THEN Gone ELSE y
    /\ UNCHANGED ty

\* l * k
Mul(l, k) ==
    /\ Running /\ ty = "DVec"
    /\ Available(l)
    /\ last' = Call("DVec::mul", <<l>>, <<Operand(l)>>, k,
                    Val(DVec_mul(Operand(l), k)), DepthWith({l}))
    /\ x' = IF l = "x" THEN Gone ELSE x
    /\ y' = IF l = "y" THEN Gone ELSE y
    /\ UNCHANGED ty

\* The calls on the fixed-size types: operands and result are Copy values.
Vec2Add(u, v) ==
    /\ Running /\ ty = "Vec2"
    /\ last' = Call("Vec2::add", <<>>, <<u, v>>, Fin(0), Val(Vec2_add(u, v)), 1)
    /\ UNCHANGED <<ty, x, y>>

\* A difference with a non-finite component reported as a failure.
Vec2Sub_Checked(u, v) ==
    /\ Running /\ ty = "Vec2"
    /\ last' = Call("Vec2::sub", <<>>, <<u, v>>, Fin(0),
                    IF Vec2_sub(u, v).x.k = "fin" /\ Vec2_sub(u, v).y.k = "fin"
                    THEN Val(Vec2_sub(u, v)) ELSE Panic, 1)
    /\ UNCHANGED <<ty, x, y>>

Vec2Sub(u, v) ==
    /\ Running /\ ty = "Vec2"
    /\ last' = Call("Vec2::sub", <<>>, <<u, v>>, Fin(0), Val(Vec2_sub(u, v)), 1)
    /\ UNCHANGED <<ty, x, y>>

Vec2Mul(u, k) ==
    /\ Running /\ ty = "Vec2"
    /\ last' = Call("Vec2::mul", <<>>, <<u>>, k, Val(Vec2_mul(u, k)), 1)
    /\ UNCHANGED <<ty, x, y>>

Vec2Dot(u, v) ==
    /\ Running /\ ty = "Vec2"
    /\ last' = Call("Vec2::dot", <<>>, <<u, v>>, Fin(0), Val(Vec2_dot(u, v)), 1)
    /\ UNCHANGED <<ty, x, y>>

Vec3Add(u, v) ==
    /\ Running /\ ty = "Vec3"
    /\ last' = Call("Vec3::add", <<>>, <<u, v>>, Fin(0), Val(Vec3_add(u, v)), 1)
    /\ UNCHANGED <<ty, x, y>>

Vec3Sub(u, v) ==
    /\ Running /\ ty = "Vec3"
    /\ last' = Call("Vec3::sub", <<>>, <<u, v>>, Fin(0), Val(Vec3_sub(u, v)), 1)
    /\ UNCHANGED <<ty, x, y>>

Vec3Mul(u, k) ==
    /\ Running /\ ty = "Vec3"
    /\ last' = Call("Vec3::mul", <<>>, <<u>>, k, Val(Vec3_mul(u, k)), 1)
    /\ UNCHANGED <<ty, x, y>>

Vec3Dot(u, v) ==
    /\ Running /\ ty = "Vec3"
    /\ last' = Call("Vec3::dot", <<>>, <<u, v>>, Fin(0), Val(Vec3_dot(u, v)), 1)
    /\ UNCHANGED <<ty, x, y>>

Bindings == {"x", "y"}
Values   == {"x", "y", "tmp"}

Next ==
    \/ \E dst \in Bindings, data \in RawData : DVecNew(dst, data)
    \/ \E l, r \in Bindings : AddRef(l, r)
    \/ \E l, r \in Bindings : SubRef(l, r)
    \/ \E l, r \in Bindings : Dot(l, r)
    \/ \E l, r \in Values : AddOwn(l, r)
    \/ \E l, r \in Values : SubOwn(l, r)
    \/ \E l \in Values, k \in InScalars : Mul(l, k)
    \/ \E u, v \in Vec2Values : Vec2Add(u, v)
    \/ \E u, v \in Vec2Values : Vec2Sub(u, v)
    \/ \E u \in Vec2Values, k \in InScalars : Vec2Mul(u, k)
    \/ \E u, v \in Vec2Values : Vec2Dot(u, v)
    \/ \E u, v \in Vec3Values : Vec3Add(u, v)
    \/ \E u, v \in Vec3Values : Vec3Sub(u, v)
    \/ \E u \in Vec3Values, k \in InScalars : Vec3Mul(u, k)
    \/ \E u, v \in Vec3Values : Vec3Dot(u, v)

Spec == Init /\ [][Next]_vars

\* ================================================================ claims
\* The operands of the last call.
A == last.ins[1]
B == last.ins[2]

SameLen == Len(A.data) = Len(B.data)

HasNaN2(v) == v.x.k = "nan" \/ v.y.k = "nan"
HasNaN3(v) == v.x.k = "nan" \/ v.y.k = "nan" \/ v.z.k = "nan"
HasNaNSeq(v) == \E i \in 1..Len(v.data) : v.data[i].k = "nan"

BinaryDVecOps ==
    {"DVec::add_ref", "DVec::sub_ref", "DVec::add", "DVec::sub", "DVec::dot"}

\* C1: on two DVecs of different lengths, a + b and a - b (owning and
\* borrowing) and a.dot(&b) return Err(DimensionMismatch), neither a panic nor
\* Ok; on equal lengths none of them returns DimensionMismatch.
C1_MismatchIsError ==
    last.op \in BinaryDVecOps =>
        IF SameLen
        THEN last.out.tag # "err"
        ELSE last.out.tag = "err" /\ last.out.err = DimensionMismatch

\* The owning sum of two DVecs of different lengths has returned the error.
C1_Witness ==
    /\ last.op = "DVec::add"
    /\ ~SameLen
    /\ last.out.tag = "err"

\* C2: every DVec reachable through the API has length >= 1: DVec::new on an
\* empty sequence panics and binds nothing, and every DVec a binding holds or
\* an add, sub or scalar mul returns (inside Ok too) is non-empty.
C2_NonEmpty ==
    /\ x.st = "live" => Len(x.data) >= 1
    /\ y.st = "live" => Len(y.data) >= 1
    /\ (last.op = "DVec::new" /\ A.data = <<>>) => last.out.tag = "panic"
    /\ HasTmp => Len(last.out.val.data) >= 1

\* A scalar multiple of the result of an earlier operation has been returned.
C2_Witness ==
    /\ last.op = "DVec::mul"
    /\ last.args = <<"tmp">>
    /\ last.depth = 2
    /\ Len(last.out.val.data) >= 1

\* The sum of the componentwise products, taken in index order in T.
SumOfProducts(a, b) ==
    LET p == [i \in 1..Len(a.data) |-> T_mul(a.data[i], b.data[i])]
    IN  Fold(p[1], Tail(p))

\* C3: on two DVecs of equal length n >= 1, a.dot(&b) returns Ok(s) with s the
\* sum over i of a[i]*b[i]; the fold's initial accumulator a[0] - a[0] is
\* zero and contributes nothing to s.
C3_DotIsSumOfProducts ==
    (last.op = "DVec::dot" /\ SameLen) =>
        /\ last.out.tag = "ok"
        /\ T_sub(A.data[1], A.data[1]) = Fin(0)
        /\ last.out.val = SumOfProducts(A, B)

\* C4: on two DVecs of equal length n, a + b returns Ok(c) and a - b returns
\* Ok(d), c and d of length n, with c[i] = a[i] + b[i] and d[i] = a[i] - b[i]
\* at every index.
C4_Componentwise ==
    /\ (last.op \in {"DVec::add_ref", "DVec::add"} /\ SameLen) =>
        /\ last.out.tag = "ok"
        /\ Len(last.out.val.data) = Len(A.data)
        /\ \A i \in 1..Len(A.data) :
              last.out.val.data[i] = T_add(A.data[i], B.data[i])
    /\ (last.op \in {"DVec::sub_ref", "DVec::sub"} /\ SameLen) =>
        /\ last.out.tag = "ok"
        /\ Len(last.out.val.data) = Len(A.data)
        /\ \A i \in 1..Len(A.data) :
              last.out.val.data[i] = T_sub(A.data[i], B.data[i])

\* The difference of two different DVecs of length 2 has been returned.
C4_Witness ==
    /\ last.op = "DVec::sub_ref"
    /\ Len(A.data) = 2 /\ Len(B.data) = 2
    /\ A # B
    /\ last.out.tag = "ok"

\* C5: v * k never fails and returns a DVec of the length of v whose i-th
\* component is v[i] * k; no dimension check is involved.
C5_ScalarMulTotal ==
    last.op = "DVec::mul" =>
        /\ last.out.tag = "val"
        /\ Len(last.out.val.data) = Len(A.data)
        /\ \A i \in 1..Len(A.data) :
              last.out.val.data[i] = T_mul(A.data[i], last.k)

\* A DVec of length 2 has been multiplied by the infinite scalar.
C5_Witness ==
    /\ last.op = "DVec::mul"
    /\ Len(A.data) = 2
    /\ last.k = PInf
    /\ last.out.tag = "val"

\* C6, as stated: u + v == v + u for all Vec2 values, all Vec3 values, and
\* all DVec values of equal length (both orders Ok, with equal vectors).
C6_AddCommutes ==
    /\ last.op = "Vec2::add" => Vec2_eq(last.out.val, Vec2_add(B, A))
    /\ last.op = "Vec3::add" => Vec3_eq(last.out.val, Vec3_add(B, A))
    /\ (last.op \in {"DVec::add_ref", "DVec::add"} /\ SameLen) =>
        /\ last.out.tag = "ok"
        /\ DVec_add_ref(B, A).tag = "ok"
        /\ DVec_eq(last.out.val, DVec_add_ref(B, A).val)

\* C6, amended: u + v and v + u have the same components (for DVecs of equal
\* length both orders return Ok, with the same length and components), and
\* they compare equal with == exactly when no component of the sum is NaN.
C6_AddCommutesUpToNaN ==
    /\ last.op = "Vec2::add" =>
        /\ last.out.val = Vec2_add(B, A)
        /\ Vec2_eq(last.out.val, Vec2_add(B, A)) <=> ~HasNaN2(last.out.val)
    /\ last.op = "Vec3::add" =>
        /\ last.out.val = Vec3_add(B, A)
        /\ Vec3_eq(last.out.val, Vec3_add(B, A)) <=> ~HasNaN3(last.out.val)
    /\ (last.op \in {"DVec::add_ref", "DVec::add"} /\ SameLen) =>
        /\ last.out.tag = "ok"
        /\ DVec_add_ref(B, A).tag = "ok"
        /\ last.out.val = DVec_add_ref(B, A).val
        /\ DVec_eq(last.out.val, DVec_add_ref(B, A).val)
              <=> ~HasNaNSeq(last.out.val)

\* Two different Vec2 values have been added, the sum free of NaN.
C6_Witness ==
    /\ last.op = "Vec2::add"
    /\ A # B
    /\ ~HasNaN2(last.out.val)

\* C7, as stated: v * 1 == v for every Vec2, Vec3 and DVec value v.
C7_MulOneIsIdentity ==
    /\ (last.op = "Vec2::mul" /\ last.k = One) => Vec2_eq(last.out.val, A)
    /\ (last.op = "Vec3::mul" /\ last.k = One) => Vec3_eq(last.out.val, A)
    /\ (last.op = "DVec::mul" /\ last.k = One) =>
        last.out.tag = "val" /\ DVec_eq(last.out.val, A)

\* C7, amended: v * 1 has the components of v (and for a DVec its length),
\* and v * 1 == v exactly when no component of v is NaN.
C7_MulOneUpToNaN ==
    /\ (last.op = "Vec2::mul" /\ last.k = One) =>
        /\ last.out.val = A
        /\ Vec2_eq(last.out.val, A) <=> ~HasNaN2(A)
    /\ (last.op = "Vec3::mul" /\ last.k = One) =>
        /\ last.out.val = A
        /\ Vec3_eq(last.out.val, A) <=> ~HasNaN3(A)
    /\ (last.op = "DVec::mul" /\ last.k = One) =>
        /\ last.out.tag = "val"
        /\ Len(last.out.val.data) = Len(A.data)
        /\ \A i \in 1..Len(A.data) : last.out.val.data[i] = A.data[i]
        /\ DVec_eq(last.out.val, A) <=> ~HasNaNSeq(A)

\* A Vec2 with two different components, none NaN, has been multiplied by 1.
C7_Witness ==
    /\ last.op = "Vec2::mul"
    /\ last.k = One
    /\ A.x # A.y
    /\ ~HasNaN2(A)

\* C8, as stated: Vec2(a,b).dot(Vec2(c,d)) == a*c + b*d and
\* Vec3(a,b,c).dot(Vec3(d,e,f)) == a*d + b*e + c*f, for all scalars.
C8_FixedDot ==
    /\ last.op = "Vec2::dot" =>
        T_eq(last.out.val, T_add(T_mul(A.x, B.x), T_mul(A.y, B.y)))
    /\ last.op = "Vec3::dot" =>
        T_eq(last.out.val,
             T_add(T_add(T_mul(A.x, B.x), T_mul(A.y, B.y)), T_mul(A.z, B.z)))

\* C8, amended: the fixed-size dot product returns the value of a*c + b*d
\* (a*d + b*e + c*f for Vec3), and compares equal to it with == exactly when
\* that value is not NaN.
C8_FixedDotUpToNaN ==
    /\ last.op = "Vec2::dot" =>
        LET s == T_add(T_mul(A.x, B.x), T_mul(A.y, B.y)) IN
        /\ last.out.val = s
        /\ T_eq(last.out.val, s) <=> s # NaN
    /\ last.op = "Vec3::dot" =>
        LET s == T_add(T_add(T_mul(A.x, B.x), T_mul(A.y, B.y)),
                       T_mul(A.z, B.z)) IN
        /\ last.out.val = s
        /\ T_eq(last.out.val, s) <=> s # NaN

\* The dot product of two different Vec2 values has returned a finite sum.
C8_Witness ==
    /\ last.op = "Vec2::dot"
    /\ A # B
    /\ A.x # A.y
    /\ last.out.val.k = "fin"

\* C9: &a + &b, &a - &b and a.dot(&b) leave both operands unchanged, whether
\* they return Ok or DimensionMismatch: the bindings hold the same live
\* values after the call, and an Ok result is a value apart from both.
C9_BorrowLeavesOperands ==
    [][last'.op \in {"DVec::add_ref", "DVec::sub_ref", "DVec::dot"} =>
          /\ x' = x
          /\ y' = y
          /\ \A n \in 1..2 :
                /\ last'.args[n] = "x" =>
                      x'.st = "live" /\ x'.data = last'.ins[n].data
                /\ last'.args[n] = "y" =>
                      y'.st = "live" /\ y'.data = last'.ins[n].data]_vars

\* A borrowing sum of x and y has returned Ok and both are still live.
C9_Witness ==
    /\ last.op = "DVec::add_ref"
    /\ last.args = <<"x", "y">>
    /\ last.out.tag = "ok"
    /\ x.st = "live" /\ y.st = "live"

FixedOps ==
    {"Vec2::add", "Vec2::sub", "Vec2::mul", "Vec2::dot",
     "Vec3::add", "Vec3::sub", "Vec3::mul", "Vec3::dot"}

\* C10: add, sub, scalar mul and dot of Vec2 and of Vec3 return a value for
\* every operand and scalar: no error outcome and no panic.
C10_FixedTotal ==
    last.op \in FixedOps => last.out.tag = "val"

\* A Vec2 difference with a NaN component has been returned as a value.
C10_Witness ==
    /\ last.op = "Vec2::sub"
    /\ HasNaN2(last.out.val)
    /\ last.out.tag = "val"

====
